---- MODULE Spec2Model ----
(***************************************************************************)
(* A model of pyhamtools' LookupLib (src/pyhamtools/lookuplib.py): the     *)
(* builders that turn a Clublog XML file or a country-files.com PLIST file *)
(* into record stores and key indexes, and the five lookup operations.     *)
(*                                                                         *)
(* Conventions of the model                                                *)
(*  - A Python dict is a TLA+ function; "key in dict" is  key \in DOMAIN.  *)
(*    An optional field of a record is a field that is in the record's     *)
(*    domain or not, as in the code.                                       *)
(*  - A Python str that the code normalises (a callsign, a prefix) is a    *)
(*    sequence of one-character strings, so that strip() and upper() are   *)
(*    computed character by character.  Other strings are atoms.           *)
(*  - A UTC datetime is an integer instant.                                *)
(*  - A raw numeric text of the input is the number it denotes; floats are *)
(*    integers.                                                            *)
(***************************************************************************)
EXTENDS Integers, Sequences, FiniteSets, TLC

\* Longest record list of one category of an input file.
MaxRecs == 3
\* Timestamps of lookups range over 0..MaxTime.
MaxTime == 4
\* Remote requests issued by one instance are counted up to MaxRequests.
MaxRequests == 2

VARIABLES
    lookuptype,                \* self._lookuptype
    apikey,                    \* self._apikey (TRUE: a key was given)
    download,                  \* self._download
    cty_xml,                   \* the Clublog XML file the instance loads
    cty_plist,                 \* the PLIST file, in readPlist iteration order
    mapping,                   \* countryfilemapping.json, when it exists
    entities,                  \* self._entities
    callsign_exceptions,       \* self._callsign_exceptions
    prefixes,                  \* self._prefixes
    invalid_operations,        \* self._invalid_operations
    zone_exceptions,           \* self._zone_exceptions
    callsign_exceptions_index, \* self._callsign_exceptions_index
    prefixes_index,            \* self._prefixes_index
    invalid_operations_index,  \* self._invalid_operations_index
    zone_exceptions_index,     \* self._zone_exceptions_index
    phase,                     \* "new", "ready" or "failed" (__init__ raised)
    error,                     \* the exception __init__ raised, or "none"
    requests,                  \* number of HTTP requests issued so far
    call,                      \* the last operation called and its arguments
    result                     \* what the last operation returned or raised

inputs == <<lookuptype, apikey, download, cty_xml, cty_plist, mapping>>
stores == <<entities, callsign_exceptions, prefixes, invalid_operations,
            zone_exceptions>>
indexes == <<callsign_exceptions_index, prefixes_index,
             invalid_operations_index, zone_exceptions_index>>
vars == <<inputs, stores, indexes, phase, error, requests, call, result>>

-----------------------------------------------------------------------------
(* Python values *)

\* An empty dict.
EmptyDict == [x \in {} |-> x]

\* A function result: a returned value or a raised exception.
Return(v) == [kind |-> "return", value |-> v]
Raise(exc) == [kind |-> "raise", exc |-> exc]

\* str.strip(): the characters str.strip() removes with no argument.
Whitespace == {" ", "\t", "\n", "\r", "\f"}

RECURSIVE LStrip(_)
LStrip(s) ==
    IF s # <<>> /\ Head(s) \in Whitespace THEN LStrip(Tail(s)) ELSE s

RECURSIVE RStrip(_)
RStrip(s) ==
    IF s # <<>> /\ s[Len(s)] \in Whitespace
    THEN RStrip(SubSeq(s, 1, Len(s) - 1))
    ELSE s

Strip(s) == RStrip(LStrip(s))

\* str.upper() on one character: ASCII lower-case letters are raised.
LowerLetters == <<"a", "b", "c", "d", "e", "f", "g", "h", "i", "j", "k", "l",
                  "m", "n", "o", "p", "q", "r", "s", "t", "u", "v", "w", "x",
                  "y", "z">>
UpperLetters == <<"A", "B", "C", "D", "E", "F", "G", "H", "I", "J", "K", "L",
                  "M", "N", "O", "P", "Q", "R", "S", "T", "U", "V", "W", "X",
                  "Y", "Z">>

UpperChar(c) ==
    IF \E i \in DOMAIN LowerLetters : LowerLetters[i] = c
    THEN UpperLetters[CHOOSE i \in DOMAIN LowerLetters : LowerLetters[i] = c]
    ELSE c

Upper(s) == [i \in DOMAIN s |-> UpperChar(s[i])]

\* callsign.strip().upper(), as every keyed lookup does first.
StripUpper_NoUpper(s) == Strip(s)
StripUpper(s) == Upper(Strip(s))

\* int(entity) of lookup_entity: an int is itself, a string of decimal
\* digits is the number it spells, any other string raises ValueError.
Digits == <<"0", "1", "2", "3", "4", "5", "6", "7", "8", "9">>

DigitValue(c) == (CHOOSE i \in DOMAIN Digits : Digits[i] = c) - 1

RECURSIVE DecimalValue(_)
DecimalValue(s) ==
    IF s = <<>> THEN 0
    ELSE 10 * DecimalValue(SubSeq(s, 1, Len(s) - 1)) + DigitValue(s[Len(s)])

IsDecimal(s) ==
    s # <<>> /\ \A i \in DOMAIN s : \E d \in DOMAIN Digits : Digits[d] = s[i]

IntOf(arg) ==
    IF arg.type = "int" THEN Return(arg.val)
    ELSE IF IsDecimal(arg.text) THEN Return(DecimalValue(arg.text))
    ELSE Raise("ValueError")

-----------------------------------------------------------------------------
(* Dict helpers *)

\* d[k] = v
Put(d, k, v) == [x \in DOMAIN d \cup {k} |-> IF x = k THEN v ELSE d[x]]

\* if call in index.keys(): index[call].append(id)  else: index[call] = [id]
IndexAppend_Overwrite(index, k, id) == Put(index, k, <<id>>)
IndexAppend(index, k, id) ==
    IF k \in DOMAIN index
    THEN [index EXCEPT ![k] = Append(@, id)]
    ELSE Put(index, k, <<id>>)

\* One "elif item.tag == tag: rec[name] = item.text" branch of a parse loop.
Field(e, tag, name) ==
    IF tag \in DOMAIN e THEN name :> e[tag] ELSE EmptyDict

\* elif item.tag == "long": rec[const.LONGITUDE] = float(item.text)*(-1)
LongField(e) ==
    IF "long" \in DOMAIN e THEN "longitude" :> (e.long * (-1)) ELSE EmptyDict

\* if item.text == "TRUE": rec[name] = True  else: rec[name] = False
FlagField(e, tag, name) ==
    IF tag \in DOMAIN e THEN name :> (e[tag] = "TRUE") ELSE EmptyDict

\* The child tags of an XML element; "record" is its attribute.
Children(e) == DOMAIN e \ {"record"}

-----------------------------------------------------------------------------
(* _parse_clublog_xml: the record built from one element of each section *)

EntityOf(e) ==
    Field(e, "name", "country") @@ Field(e, "prefix", "prefix")
    @@ FlagField(e, "deleted", "deleted") @@ Field(e, "cqz", "cqz")
    @@ Field(e, "cont", "continent") @@ LongField(e)
    @@ Field(e, "lat", "latitude") @@ Field(e, "start", "start")
    @@ Field(e, "end", "end") @@ FlagField(e, "whitelist", "whitelist")

CallExceptionOf(e) ==
    Field(e, "entity", "country") @@ Field(e, "adif", "adif")
    @@ Field(e, "cqz", "cqz") @@ Field(e, "cont", "continent")
    @@ LongField(e) @@ Field(e, "lat", "latitude")
    @@ Field(e, "start", "start") @@ Field(e, "end", "end")

PrefixOf(e) ==
    Field(e, "entity", "country") @@ Field(e, "adif", "adif")
    @@ Field(e, "cqz", "cqz") @@ Field(e, "cont", "continent")
    @@ LongField(e) @@ Field(e, "lat", "latitude")
    @@ Field(e, "start", "start") @@ Field(e, "end", "end")

InvalidOperationOf(e) ==
    Field(e, "start", "start") @@ Field(e, "end", "end")

ZoneExceptionOf(e) ==
    Field(e, "zone", "cqz") @@ Field(e, "start", "start")
    @@ Field(e, "end", "end")

(* _parse_clublog_xml: the loop over one section.  The index entry is made  *)
(* when the element's call tag is met, under the element's record           *)
(* attribute; the record is stored under the same attribute inside the loop *)
(* over the element's children, so an element with no child is not stored.  *)

RECURSIVE AddEntities(_, _)
AddEntities(elems, ents) ==
    IF elems = <<>> THEN ents
    ELSE LET e == Head(elems)
         IN  AddEntities(Tail(elems), Put(ents, e.adif, EntityOf(e)))

RECURSIVE AddCallExceptions_ByPosition(_, _, _)
AddCallExceptions_ByPosition(elems, store, index) ==
    IF elems = <<>> THEN [store |-> store, index |-> index]
    ELSE LET e == Head(elems)
             counter == Cardinality(DOMAIN store)
             index2 == IF "call" \in DOMAIN e
                       THEN IndexAppend(index, e.call, counter)
                       ELSE index
             store2 == IF Children(e) = {} THEN store
                       ELSE Put(store, counter, CallExceptionOf(e))
         IN  AddCallExceptions_ByPosition(Tail(elems), store2, index2)
RECURSIVE AddCallExceptions(_, _, _)
AddCallExceptions(elems, store, index) ==
    IF elems = <<>> THEN [store |-> store, index |-> index]
    ELSE LET e == Head(elems)
             index2 == IF "call" \in DOMAIN e
                       THEN IndexAppend(index, e.call, e.record)
                       ELSE index
             store2 == IF Children(e) = {} THEN store
                       ELSE Put(store, e.record, CallExceptionOf(e))
         IN  AddCallExceptions(Tail(elems), store2, index2)

RECURSIVE AddPrefixes_StoreByPosition(_, _, _)
AddPrefixes_StoreByPosition(elems, store, index) ==
    IF elems = <<>> THEN [store |-> store, index |-> index]
    ELSE LET e == Head(elems)
             index2 == IF "call" \in DOMAIN e
                       THEN IndexAppend(index, e.call, e.record)
                       ELSE index
             store2 == IF Children(e) = {} THEN store
                       ELSE Put(store, Cardinality(DOMAIN store), PrefixOf(e))
         IN  AddPrefixes_StoreByPosition(Tail(elems), store2, index2)
RECURSIVE AddPrefixes(_, _, _)
AddPrefixes(elems, store, index) ==
    IF elems = <<>> THEN [store |-> store, index |-> index]
    ELSE LET e == Head(elems)
             index2 == IF "call" \in DOMAIN e
                       THEN IndexAppend(index, e.call, e.record)
                       ELSE index
             store2 == IF Children(e) = {} THEN store
                       ELSE Put(store, e.record, PrefixOf(e))
         IN  AddPrefixes(Tail(elems), store2, index2)

RECURSIVE AddInvalidOperations(_, _, _)
AddInvalidOperations(elems, store, index) ==
    IF elems = <<>> THEN [store |-> store, index |-> index]
    ELSE LET e == Head(elems)
             index2 == IF "call" \in DOMAIN e
                       THEN IndexAppend(index, e.call, e.record)
                       ELSE index
             store2 == IF Children(e) = {} THEN store
                       ELSE Put(store, e.record, InvalidOperationOf(e))
         IN  AddInvalidOperations(Tail(elems), store2, index2)

RECURSIVE AddZoneExceptions(_, _, _)
AddZoneExceptions(elems, store, index) ==
    IF elems = <<>> THEN [store |-> store, index |-> index]
    ELSE LET e == Head(elems)
             index2 == IF "call" \in DOMAIN e
                       THEN IndexAppend(index, e.call, e.record)
                       ELSE index
             store2 == IF Children(e) = {} THEN store
                       ELSE Put(store, e.record, ZoneExceptionOf(e))
         IN  AddZoneExceptions(Tail(elems), store2, index2)

\* raise Exception(msg)
RaiseMsg(msg) == [kind |-> "raise", exc |-> "Exception", msg |-> msg]

\* if len(section) > 1: ... else: raise Exception(...)
SectionOk_NoCheck(section) == TRUE
SectionOk(section) == Len(section) > 1

(* _parse_clublog_xml: the five sections in file order; the first section   *)
(* that fails its length test raises and nothing is returned.               *)
ParseClublogXml(file) ==
    IF ~SectionOk(file.entities)
    THEN RaiseMsg("No Country Entities detected in XML File")
    ELSE IF ~SectionOk(file.exceptions)
    THEN RaiseMsg("No Exceptions detected in XML File")
    ELSE IF ~SectionOk(file.prefixes)
    THEN RaiseMsg("No Prefixes detected in XML File")
    ELSE IF ~SectionOk(file.invalid_operations)
    THEN RaiseMsg("No records for invalid operations detected in XML File")
    ELSE IF ~SectionOk(file.zone_exceptions)
    THEN RaiseMsg("No records for zone exceptions detected in XML File")
    ELSE LET exc == AddCallExceptions(file.exceptions, EmptyDict, EmptyDict)
             pre == AddPrefixes(file.prefixes, EmptyDict, EmptyDict)
             inv == AddInvalidOperations(file.invalid_operations,
                                         EmptyDict, EmptyDict)
             zon == AddZoneExceptions(file.zone_exceptions,
                                      EmptyDict, EmptyDict)
         IN  Return([entities |-> AddEntities(file.entities, EmptyDict),
                     call_exceptions |-> exc.store,
                     prefixes |-> pre.store,
                     invalid_operations |-> inv.store,
                     zone_exceptions |-> zon.store,
                     prefixes_index |-> pre.index,
                     call_exceptions_index |-> exc.index,
                     invalid_operations_index |-> inv.index,
                     zone_exceptions_index |-> zon.index])

-----------------------------------------------------------------------------
(* _parse_country_file *)

\* The entry built from one item of the PLIST; table is the loaded mapping
\* ("if mapping:" is false for an empty table).
CountryEntryOf(item, table) ==
    [country |-> item.Country, cqz |-> item.CQZone, ituz |-> item.ITUZone,
     continent |-> item.Continent, latitude |-> item.Latitude,
     longitude |-> item.Longitude]
    @@ (IF table # EmptyDict THEN "adif" :> table[item.Country]
        ELSE EmptyDict)

\* The loop over cty_list; acc holds the two stores, the two indexes and the
\* two counters.  mapping[...] of a country the table lacks raises KeyError.
RECURSIVE AddCountryItems(_, _, _)
AddCountryItems(items, table, acc) ==
    IF items = <<>> THEN Return(acc)
    ELSE LET item == Head(items) IN
         IF table # EmptyDict /\ item.Country \notin DOMAIN table
         THEN Raise("KeyError")
         ELSE LET entry == CountryEntryOf(item, table) IN
              IF item.ExactCallsign
              THEN AddCountryItems(Tail(items), table,
                     [acc EXCEPT
                        !.exceptions_index =
                            IndexAppend(@, item.call, acc.exceptions_counter),
                        !.exceptions = Put(@, acc.exceptions_counter, entry),
                        !.exceptions_counter = @ + 1])
              ELSE AddCountryItems(Tail(items), table,
                     [acc EXCEPT
                        !.prefixes_index =
                            IndexAppend(@, item.call, acc.prefixes_counter),
                        !.prefixes = Put(@, acc.prefixes_counter, entry),
                        !.prefixes_counter = @ + 1])

\* open(country_mapping_filename) raises TypeError when the name is None.
ParseCountryFile(cty_list, country_mapping) ==
    IF ~country_mapping.exists THEN Raise("TypeError")
    ELSE AddCountryItems(cty_list, country_mapping.table,
            [exceptions |-> EmptyDict, prefixes |-> EmptyDict,
             exceptions_index |-> EmptyDict, prefixes_index |-> EmptyDict,
             exceptions_counter |-> 0, prefixes_counter |-> 0])

-----------------------------------------------------------------------------
(* HTTP *)

\* The two bodies _check_html_response takes for a missing or wrong API key.
error1 == "Access to this form requires a valid API key. For more info see: http://www.clublog.org/need_api.php"
error2 == "Invalid or missing API Key"

\* A response text is a sequence whose elements are whitespace characters
\* or one token standing for the rest of the body.
CheckHtmlResponse(response) ==
    IF response.status_code = 200 THEN Return(TRUE)
    ELSE IF Strip(response.text) = <<error1>>
            \/ Strip(response.text) = <<error2>>
    THEN Raise("APIKeyMissingError")
    ELSE Raise("LookupError")

\* requests.get(...) followed by _check_html_response, as _download_file
\* does: the path of the downloaded file is returned, or an exception of
\* the transport or of the check is raised.
DownloadFile(response) ==
    IF response.kind = "exception" THEN Raise(response.exc)
    ELSE CheckHtmlResponse(response)

\* What a GET of a dataset can answer.
DownloadResponses ==
    {[kind |-> "http", status_code |-> 200, text |-> <<"file">>],
     [kind |-> "http", status_code |-> 403, text |-> <<error2, "\n">>],
     [kind |-> "http", status_code |-> 500, text |-> <<"Server Error">>],
     [kind |-> "exception", exc |-> "ConnectionError"]}

\* No request is made.
NoResponse == [kind |-> "none"]

-----------------------------------------------------------------------------
(* __init__ and the loaders *)

\* The attributes __init__ sets before it loads.  _prefixes and
\* _prefixes_index are first set by a loader; no code path reads them
\* earlier, and they are modelled as empty until then.
NewFacade ==
    [entities |-> EmptyDict, callsign_exceptions |-> EmptyDict,
     prefixes |-> EmptyDict, invalid_operations |-> EmptyDict,
     zone_exceptions |-> EmptyDict,
     callsign_exceptions_index |-> EmptyDict, prefixes_index |-> EmptyDict,
     invalid_operations_index |-> EmptyDict,
     zone_exceptions_index |-> EmptyDict]

\* A loader hands back how it ended and the instance as it left it.
Loaded(outcome, self) == [outcome |-> outcome, self |-> self]

\* _load_clublogXML: the parse comes first, the assignments to self after.
LoadClublogXML_AssignAsParsed(self, response) ==
    LET got == IF download THEN DownloadFile(response) ELSE Return(TRUE) IN
    IF got.kind = "raise" THEN Loaded(got, self)
    ELSE LET parsed == ParseClublogXml(cty_xml)
             early == IF SectionOk(cty_xml.entities)
                      THEN [self EXCEPT !.entities =
                                AddEntities(cty_xml.entities, EmptyDict)]
                      ELSE self
         IN
         IF parsed.kind = "raise" THEN Loaded(parsed, early)
         ELSE LET cty_dict == parsed.value IN
              Loaded(Return(TRUE),
                     [entities |-> cty_dict.entities,
                      callsign_exceptions |-> cty_dict.call_exceptions,
                      prefixes |-> cty_dict.prefixes,
                      invalid_operations |-> cty_dict.invalid_operations,
                      zone_exceptions |-> cty_dict.zone_exceptions,
                      callsign_exceptions_index |->
                          cty_dict.call_exceptions_index,
                      prefixes_index |-> cty_dict.prefixes_index,
                      invalid_operations_index |->
                          cty_dict.invalid_operations_index,
                      zone_exceptions_index |->
                          cty_dict.zone_exceptions_index])
LoadClublogXML(self, response) ==
    LET got == IF download THEN DownloadFile(response) ELSE Return(TRUE) IN
    IF got.kind = "raise" THEN Loaded(got, self)
    ELSE LET parsed == ParseClublogXml(cty_xml) IN
         IF parsed.kind = "raise" THEN Loaded(parsed, self)
         ELSE LET cty_dict == parsed.value IN
              Loaded(Return(TRUE),
                     [entities |-> cty_dict.entities,
                      callsign_exceptions |-> cty_dict.call_exceptions,
                      prefixes |-> cty_dict.prefixes,
                      invalid_operations |-> cty_dict.invalid_operations,
                      zone_exceptions |-> cty_dict.zone_exceptions,
                      callsign_exceptions_index |->
                          cty_dict.call_exceptions_index,
                      prefixes_index |-> cty_dict.prefixes_index,
                      invalid_operations_index |->
                          cty_dict.invalid_operations_index,
                      zone_exceptions_index |->
                          cty_dict.zone_exceptions_index])

\* _load_countryfile, called by __init__ with no argument: cty_file is None,
\* so without a download os.path.abspath(cty_file) raises AttributeError.
\* The four assignments to self come after the parse.
LoadCountryfile(self, response) ==
    LET got == IF download THEN DownloadFile(response)
               ELSE Raise("AttributeError") IN
    IF got.kind = "raise" THEN Loaded(got, self)
    ELSE LET parsed == ParseCountryFile(cty_plist, mapping) IN
         IF parsed.kind = "raise" THEN Loaded(parsed, self)
         ELSE LET cty_dict == parsed.value IN
              Loaded(Return(TRUE),
                     [self EXCEPT
                        !.callsign_exceptions = cty_dict.exceptions,
                        !.prefixes = cty_dict.prefixes,
                        !.callsign_exceptions_index =
                            cty_dict.exceptions_index,
                        !.prefixes_index = cty_dict.prefixes_index])

\* The tail of __init__: the dispatch on the lookup type.
Load(self, response) ==
    IF lookuptype = "clublogxml" THEN LoadClublogXML(self, response)
    ELSE IF lookuptype = "countryfile" THEN LoadCountryfile(self, response)
    ELSE IF lookuptype = "clublogapi" THEN Loaded(Return(TRUE), self)
    ELSE Loaded(Raise("AttributeError"), self)

-----------------------------------------------------------------------------
(* The lookups.  Each keyed lookup has its own copy of the four-way test of *)
(* a record's validity window and its own loop over the key's id sequence.  *)

\* lookup_entity
LookupEntity_RaiseLookupError(entity) ==
    IF entity.type = "none" THEN Raise("LookupError")
    ELSE LET n == IntOf(entity) IN
         IF n.kind = "raise" THEN Raise("NoResult")
         ELSE IF n.value \in DOMAIN entities
         THEN Return(entities[n.value])
         ELSE Raise("LookupError")
LookupEntity(entity) ==
    IF entity.type = "none" THEN Raise("LookupError")
    ELSE LET n == IntOf(entity) IN
         IF n.kind = "raise" THEN Raise("NoResult")
         ELSE IF n.value \in DOMAIN entities
         THEN Return(entities[n.value])
         ELSE Raise("NoResult")

\* lookup_callsign: the test of one record
MatchCallsignException_Inclusive(item, timestamp) ==
    IF "start" \in DOMAIN item /\ "end" \notin DOMAIN item
    THEN item.start <= timestamp
    ELSE IF "start" \notin DOMAIN item /\ "end" \in DOMAIN item
    THEN item.end >= timestamp
    ELSE IF "start" \in DOMAIN item /\ "end" \in DOMAIN item
    THEN item.start <= timestamp /\ item.end >= timestamp
    ELSE TRUE
MatchCallsignException(item, timestamp) ==
    IF "start" \in DOMAIN item /\ "end" \notin DOMAIN item
    THEN item.start < timestamp
    ELSE IF "start" \notin DOMAIN item /\ "end" \in DOMAIN item
    THEN item.end > timestamp
    ELSE IF "start" \in DOMAIN item /\ "end" \in DOMAIN item
    THEN item.start < timestamp /\ item.end > timestamp
    ELSE TRUE

\* lookup_callsign: the loop; an id missing from the store is a KeyError
RECURSIVE ScanCallsignExceptions(_, _)
ScanCallsignExceptions(items, timestamp) ==
    IF items = <<>> THEN Raise("NoResult")
    ELSE IF Head(items) \notin DOMAIN callsign_exceptions
    THEN Raise("KeyError")
    ELSE IF MatchCallsignException(callsign_exceptions[Head(items)],
                                   timestamp)
    THEN Return(callsign_exceptions[Head(items)])
    ELSE ScanCallsignExceptions(Tail(items), timestamp)

\* _lookup_clublogAPI: one GET, the check of the response, the mapping of
\* the JSON fields, the sentinel test on the ADIF number.
LookupClublogAPI_NoSentinel(callsign, timestamp, response) ==
    IF response.kind = "exception" THEN Raise(response.exc)
    ELSE LET checked == CheckHtmlResponse(response) IN
    IF checked.kind = "raise" THEN checked
    ELSE LET jsonLookup == response.json
             lookup ==
                 Field(jsonLookup, "Name", "country")
                 @@ Field(jsonLookup, "DXCC", "adif")
                 @@ Field(jsonLookup, "Lon", "longitude")
                 @@ Field(jsonLookup, "Lat", "latitude")
                 @@ Field(jsonLookup, "CQZ", "cqz")
                 @@ Field(jsonLookup, "Continent", "continent")
         IN  IF "adif" \notin DOMAIN lookup THEN Raise("KeyError")
             ELSE Return(lookup)
LookupClublogAPI(callsign, timestamp, response) ==
    IF response.kind = "exception" THEN Raise(response.exc)
    ELSE LET checked == CheckHtmlResponse(response) IN
    IF checked.kind = "raise" THEN checked
    ELSE LET jsonLookup == response.json
             lookup ==
                 Field(jsonLookup, "Name", "country")
                 @@ Field(jsonLookup, "DXCC", "adif")
                 @@ Field(jsonLookup, "Lon", "longitude")
                 @@ Field(jsonLookup, "Lat", "latitude")
                 @@ Field(jsonLookup, "CQZ", "cqz")
                 @@ Field(jsonLookup, "Continent", "continent")
         IN  IF "adif" \notin DOMAIN lookup THEN Raise("KeyError")
             ELSE IF lookup.adif = 0 THEN Raise("NoResult")
             ELSE Return(lookup)

\* lookup_callsign
LookupCallsign(callsign_arg, timestamp, response) ==
    LET callsign == StripUpper(callsign_arg) IN
    IF lookuptype = "clublogapi"
    THEN LookupClublogAPI(callsign, timestamp, response)
    ELSE IF lookuptype = "clublogxml" \/ lookuptype = "countryfile"
    THEN IF callsign \in DOMAIN callsign_exceptions_index
         THEN ScanCallsignExceptions(callsign_exceptions_index[callsign],
                                     timestamp)
         ELSE Raise("NoResult")
    ELSE Raise("NoResult")

\* lookup_prefix: the test of one record
MatchPrefix(item, timestamp) ==
    IF "start" \in DOMAIN item /\ "end" \notin DOMAIN item
    THEN item.start < timestamp
    ELSE IF "start" \notin DOMAIN item /\ "end" \in DOMAIN item
    THEN item.end > timestamp
    ELSE IF "start" \in DOMAIN item /\ "end" \in DOMAIN item
    THEN item.start < timestamp /\ item.end > timestamp
    ELSE TRUE

\* lookup_prefix: the loop
RECURSIVE ScanPrefixes_Last(_, _)
ScanPrefixes_Last(items, timestamp) ==
    IF items = <<>> THEN Raise("NoResult")
    ELSE IF Head(items) \notin DOMAIN prefixes THEN Raise("KeyError")
    ELSE LET rest == ScanPrefixes_Last(Tail(items), timestamp) IN
         IF rest.kind = "return" THEN rest
         ELSE IF MatchPrefix(prefixes[Head(items)], timestamp)
         THEN Return(prefixes[Head(items)])
         ELSE rest
RECURSIVE ScanPrefixes(_, _)
ScanPrefixes(items, timestamp) ==
    IF items = <<>> THEN Raise("NoResult")
    ELSE IF Head(items) \notin DOMAIN prefixes THEN Raise("KeyError")
    ELSE IF MatchPrefix(prefixes[Head(items)], timestamp)
    THEN Return(prefixes[Head(items)])
    ELSE ScanPrefixes(Tail(items), timestamp)

\* lookup_prefix
LookupPrefix(prefix_arg, timestamp) ==
    LET prefix == StripUpper(prefix_arg) IN
    IF lookuptype = "clublogxml" \/ lookuptype = "countryfile"
    THEN IF prefix \in DOMAIN prefixes_index
         THEN ScanPrefixes(prefixes_index[prefix], timestamp)
         ELSE Raise("NoResult")
    ELSE Raise("NoResult")

\* is_invalid_operation: the test of one record
MatchInvalidOperation(item, timestamp) ==
    IF "start" \in DOMAIN item /\ "end" \notin DOMAIN item
    THEN item.start < timestamp
    ELSE IF "start" \notin DOMAIN item /\ "end" \in DOMAIN item
    THEN item.end > timestamp
    ELSE IF "start" \in DOMAIN item /\ "end" \in DOMAIN item
    THEN item.start < timestamp /\ item.end > timestamp
    ELSE TRUE

\* is_invalid_operation: the loop
RECURSIVE ScanInvalidOperations_ReturnsFalse(_, _)
ScanInvalidOperations_ReturnsFalse(items, timestamp) ==
    IF items = <<>> THEN Return(FALSE)
    ELSE IF Head(items) \notin DOMAIN invalid_operations
    THEN Raise("KeyError")
    ELSE IF MatchInvalidOperation(invalid_operations[Head(items)], timestamp)
    THEN Return(TRUE)
    ELSE ScanInvalidOperations_ReturnsFalse(Tail(items), timestamp)
RECURSIVE ScanInvalidOperations(_, _)
ScanInvalidOperations(items, timestamp) ==
    IF items = <<>> THEN Raise("NoResult")
    ELSE IF Head(items) \notin DOMAIN invalid_operations
    THEN Raise("KeyError")
    ELSE IF MatchInvalidOperation(invalid_operations[Head(items)], timestamp)
    THEN Return(TRUE)
    ELSE ScanInvalidOperations(Tail(items), timestamp)

\* is_invalid_operation
IsInvalidOperation_KeyError(callsign_arg, timestamp) ==
    LET callsign == StripUpper(callsign_arg) IN
    IF lookuptype = "clublogxml"
    THEN IF callsign \in DOMAIN invalid_operations_index
         THEN ScanInvalidOperations(invalid_operations_index[callsign],
                                    timestamp)
         ELSE Raise("KeyError")
    ELSE Raise("NoResult")
IsInvalidOperation(callsign_arg, timestamp) ==
    LET callsign == StripUpper(callsign_arg) IN
    IF lookuptype = "clublogxml"
    THEN IF callsign \in DOMAIN invalid_operations_index
         THEN ScanInvalidOperations(invalid_operations_index[callsign],
                                    timestamp)
         ELSE Raise("NoResult")
    ELSE Raise("NoResult")

\* lookup_zone_exception: the test of one record
MatchZoneException(item, timestamp) ==
    IF "start" \in DOMAIN item /\ "end" \notin DOMAIN item
    THEN item.start < timestamp
    ELSE IF "start" \notin DOMAIN item /\ "end" \in DOMAIN item
    THEN item.end > timestamp
    ELSE IF "start" \in DOMAIN item /\ "end" \in DOMAIN item
    THEN item.start < timestamp /\ item.end > timestamp
    ELSE TRUE

\* lookup_zone_exception: the loop; the CQ zone of the record is returned
RECURSIVE ScanZoneExceptions(_, _)
ScanZoneExceptions(items, timestamp) ==
    IF items = <<>> THEN Raise("NoResult")
    ELSE IF Head(items) \notin DOMAIN zone_exceptions THEN Raise("KeyError")
    ELSE IF MatchZoneException(zone_exceptions[Head(items)], timestamp)
    THEN IF "cqz" \in DOMAIN zone_exceptions[Head(items)]
         THEN Return(zone_exceptions[Head(items)].cqz)
         ELSE Raise("KeyError")
    ELSE ScanZoneExceptions(Tail(items), timestamp)

\* lookup_zone_exception
LookupZoneException(callsign_arg, timestamp) ==
    LET callsign == StripUpper(callsign_arg) IN
    IF lookuptype = "clublogxml"
    THEN IF callsign \in DOMAIN zone_exceptions_index
         THEN ScanZoneExceptions(zone_exceptions_index[callsign], timestamp)
         ELSE Raise("NoResult")
    ELSE Raise("NoResult")

-----------------------------------------------------------------------------
(* The inputs the model draws from *)

Times == 0..MaxTime

\* Validity windows of input records: no bound, one bound, both bounds.
Windows ==
    {EmptyDict, [start |-> 1], [end |-> 3], [start |-> 1, end |-> 3]}

\* Callsigns and prefixes as the dataset spells them.
UpperKeys == {<<"A">>, <<"B">>}
SpelledKeys == {<<"A">>, <<"a">>, <<"A", " ">>}

\* Callsigns and prefixes as a caller passes them.
LookupKeys == {<<"A">>, <<" ", "a">>, <<"B">>, <<"C">>}

\* Arguments of lookup_entity: none, ints, strings.
EntityArgs ==
    {[type |-> "none"], [type |-> "int", val |-> 1],
     [type |-> "int", val |-> 2], [type |-> "int", val |-> 999],
     [type |-> "str", text |-> <<"2">>], [type |-> "str", text |-> <<"x">>]}

\* The rows a keyed section is made of: the record attribute, the call, the
\* window, and a number z the other fields are derived from.
Row(record, c, window, z) ==
    [record |-> record, call |-> c, window |-> window, z |-> z]

\* Rows numbered from zero in file order, with any window.
WindowRows ==
    UNION {{[i \in 1..n |-> Row(i - 1, f[i][1], f[i][2], i)] :
                f \in [1..n -> UpperKeys \X Windows]} : n \in 2..MaxRecs}

\* Rows whose record attributes are not their positions.
NumberedRows ==
    UNION {{[i \in 1..n |-> Row(f[i][2], f[i][1], EmptyDict, i)] :
                f \in [1..n -> UpperKeys \X {1, 7}]} : n \in 2..MaxRecs}

\* Rows whose calls are spelled in lower case or with whitespace.
SpelledRows ==
    UNION {{[i \in 1..n |-> Row(i - 1, f[i], EmptyDict, i)] :
                f \in [1..n -> SpelledKeys]} : n \in 2..MaxRecs}

DefaultRows == <<Row(0, <<"A">>, EmptyDict, 1),
                 Row(1, <<"B">>, [start |-> 1, end |-> 3], 2)>>

\* The XML elements of a row in each section.
ExceptionElem(row) ==
    [record |-> row.record, call |-> row.call, entity |-> "EXCEPTIONLAND",
     adif |-> 200 + row.z, cqz |-> row.z, cont |-> "EU", long |-> row.z,
     lat |-> 10 + row.z] @@ row.window

PrefixElem(row) ==
    [record |-> row.record, call |-> row.call, entity |-> "PREFIXLAND",
     adif |-> 300 + row.z, cqz |-> 20 + row.z, cont |-> "NA",
     long |-> 0 - row.z, lat |-> 30 + row.z] @@ row.window

InvalidOperationElem(row) ==
    [record |-> row.record, call |-> row.call] @@ row.window

ZoneExceptionElem(row) ==
    [record |-> row.record, call |-> row.call, zone |-> row.z] @@ row.window

EntityElem(adif, z) ==
    [adif |-> adif, name |-> IF adif = 1 THEN "ONELAND" ELSE "TWOLAND",
     prefix |-> "P", deleted |-> IF z = 2 THEN "TRUE" ELSE "FALSE",
     cqz |-> z, cont |-> "AS", long |-> z, lat |-> 40 + z]

DefaultEntities == <<EntityElem(1, 1), EntityElem(2, 2)>>

Map(rows, Elem(_)) == [i \in DOMAIN rows |-> Elem(rows[i])]

\* A Clublog XML file: the five sections, each a list of elements.
XmlOf(ents, rows) ==
    [entities |-> ents,
     exceptions |-> Map(rows, ExceptionElem),
     prefixes |-> Map(rows, PrefixElem),
     invalid_operations |-> Map(rows, InvalidOperationElem),
     zone_exceptions |-> Map(rows, ZoneExceptionElem)]

DefaultXml == XmlOf(DefaultEntities, DefaultRows)

Sections ==
    {"entities", "exceptions", "prefixes", "invalid_operations",
     "zone_exceptions"}

\* Files with one section cut to no element or to one.
ShortXmls ==
    {[DefaultXml EXCEPT ![sec] = SubSeq(@, 1, n)] :
        sec \in Sections, n \in 0..1}

\* Files whose entity section varies.
EntityXmls ==
    UNION {{XmlOf([i \in 1..n |-> EntityElem(f[i], i)], DefaultRows) :
                f \in [1..n -> {1, 2}]} : n \in 0..MaxRecs}

XmlFiles ==
    {XmlOf(DefaultEntities, rows) :
        rows \in WindowRows \cup NumberedRows \cup SpelledRows}
    \cup ShortXmls \cup EntityXmls

\* A PLIST file is a dict keyed by call; readPlist gives its items in the
\* dict's iteration order, which is the order of the sequence here.
PlistKeys == {<<"A">>, <<"a">>, <<"B">>}
Countries == {"XLAND", "YLAND"}

PlistItem(c, country, exact, z) ==
    [call |-> c, Country |-> country, CQZone |-> z, ITUZone |-> 50 + z,
     Continent |-> "OC", Latitude |-> 60 + z, Longitude |-> 0 - z,
     ExactCallsign |-> exact]

PlistFiles ==
    UNION {{[i \in 1..n |-> PlistItem(f[i][1], f[i][2], f[i][3], i)] :
                f \in {g \in [1..n -> PlistKeys \X Countries \X BOOLEAN] :
                          \A i, j \in 1..n : g[i][1] = g[j][1] => i = j}} :
           n \in 0..MaxRecs}

DefaultPlist == <<PlistItem(<<"A">>, "XLAND", TRUE, 1),
                  PlistItem(<<"B">>, "YLAND", FALSE, 2)>>

\* countryfilemapping.json: not found, or found with its table.
Mappings ==
    {[exists |-> FALSE, table |-> EmptyDict],
     [exists |-> TRUE, table |-> ("XLAND" :> 291) @@ ("YLAND" :> 1)],
     [exists |-> TRUE, table |-> ("XLAND" :> 291)],
     [exists |-> TRUE, table |-> EmptyDict]}

\* What the Clublog API can answer to a lookup.
ApiResponses ==
    {[kind |-> "http", status_code |-> 200,
      json |-> [Name |-> "XLAND", DXCC |-> 291, Lon |-> 7, Lat |-> 8,
                CQZ |-> 5, Continent |-> "NA", Adif |-> 291]],
     [kind |-> "http", status_code |-> 200,
      json |-> [Name |-> "INVALID", DXCC |-> 0, Lon |-> 0, Lat |-> 0,
                CQZ |-> 0, Continent |-> "  "]],
     [kind |-> "http", status_code |-> 200, json |-> [Name |-> "XLAND"]],
     [kind |-> "http", status_code |-> 403, text |-> <<error1>>],
     [kind |-> "http", status_code |-> 403, text |-> <<" ", error2, "\n">>],
     [kind |-> "http", status_code |-> 500, text |-> <<"Server Error">>],
     [kind |-> "exception", exc |-> "Timeout"]}

\* The instances the model constructs.
Scenario(type, key, dl, xml, plist, map) ==
    [lookuptype |-> type, apikey |-> key, download |-> dl, cty_xml |-> xml,
     cty_plist |-> plist, mapping |-> map]

NoMapping == [exists |-> FALSE, table |-> EmptyDict]

Scenarios ==
    {Scenario("clublogxml", TRUE, FALSE, xml, <<>>, NoMapping) :
        xml \in XmlFiles}
    \cup {Scenario("clublogxml", TRUE, TRUE, DefaultXml, <<>>, NoMapping)}
    \cup {Scenario("countryfile", FALSE, TRUE, DefaultXml, plist, map) :
            plist \in PlistFiles, map \in Mappings}
    \cup {Scenario("countryfile", FALSE, FALSE, DefaultXml, DefaultPlist, map) :
            map \in Mappings}
    \cup {Scenario("clublogapi", key, TRUE, DefaultXml, <<>>, NoMapping) :
            key \in BOOLEAN}
    \cup {Scenario("unknown", FALSE, TRUE, DefaultXml, <<>>, NoMapping)}

-----------------------------------------------------------------------------
(* The state machine *)

NoCall == [op |-> "none"]
NothingYet == [kind |-> "none"]

\* The stores and indexes of the instance, as one record.
Self ==
    [entities |-> entities, callsign_exceptions |-> callsign_exceptions,
     prefixes |-> prefixes, invalid_operations |-> invalid_operations,
     zone_exceptions |-> zone_exceptions,
     callsign_exceptions_index |-> callsign_exceptions_index,
     prefixes_index |-> prefixes_index,
     invalid_operations_index |-> invalid_operations_index,
     zone_exceptions_index |-> zone_exceptions_index]

\* The head of __init__: the arguments are taken and the dicts are empty.
Init ==
    /\ \E sc \in Scenarios :
         /\ lookuptype = sc.lookuptype
         /\ apikey = sc.apikey
         /\ download = sc.download
         /\ cty_xml = sc.cty_xml
         /\ cty_plist = sc.cty_plist
         /\ mapping = sc.mapping
    /\ entities = EmptyDict
    /\ callsign_exceptions = EmptyDict
    /\ prefixes = EmptyDict
    /\ invalid_operations = EmptyDict
    /\ zone_exceptions = EmptyDict
    /\ callsign_exceptions_index = EmptyDict
    /\ prefixes_index = EmptyDict
    /\ invalid_operations_index = EmptyDict
    /\ zone_exceptions_index = EmptyDict
    /\ phase = "new"
    /\ error = "none"
    /\ requests = 0
    /\ call = NoCall
    /\ result = NothingYet

\* The tail of __init__: the load.  A loader that downloads issues one GET.
Construct ==
    /\ phase = "new"
    /\ \E response \in
            (IF download /\ lookuptype \in {"clublogxml", "countryfile"}
             THEN DownloadResponses ELSE {NoResponse}) :
         LET loaded == Load(Self, response)
             outcome == loaded.outcome
             self == loaded.self
         IN  /\ phase' = IF outcome.kind = "return" THEN "ready" ELSE "failed"
             /\ error' = IF outcome.kind = "raise" THEN outcome.exc
                         ELSE "none"
             /\ requests' = IF response.kind = "none" THEN requests
                            ELSE requests + 1
             /\ entities' = self.entities
             /\ callsign_exceptions' = self.callsign_exceptions
             /\ prefixes' = self.prefixes
             /\ invalid_operations' = self.invalid_operations
             /\ zone_exceptions' = self.zone_exceptions
             /\ callsign_exceptions_index' = self.callsign_exceptions_index
             /\ prefixes_index' = self.prefixes_index
             /\ invalid_operations_index' = self.invalid_operations_index
             /\ zone_exceptions_index' = self.zone_exceptions_index
    /\ UNCHANGED <<inputs, call, result>>

\* A caller may call an operation of a constructed instance when no call is
\* pending.
Callable == phase = "ready" /\ call.op = "none"

lookup_entity ==
    /\ Callable
    /\ \E entity \in EntityArgs :
         /\ call' = [op |-> "lookup_entity", entity |-> entity]
         /\ result' = LookupEntity(entity)
    /\ UNCHANGED <<inputs, stores, indexes, phase, error, requests>>

lookup_callsign_Retrying ==
    /\ Callable
    /\ lookuptype = "clublogapi" => requests < MaxRequests
    /\ \E callsign \in LookupKeys, timestamp \in Times :
       \E response \in
            (IF lookuptype = "clublogapi" THEN ApiResponses
             ELSE {NoResponse}) :
         /\ call' = [op |-> "lookup_callsign", key |-> callsign,
                     timestamp |-> timestamp, response |-> response]
         /\ result' = LookupCallsign(callsign, timestamp, response)
         /\ requests' = IF response.kind = "none" THEN requests
                        ELSE IF response.kind = "http"
                                /\ response.status_code = 200
                        THEN requests + 1
                        ELSE requests + 2
    /\ UNCHANGED <<inputs, stores, indexes, phase, error>>
lookup_callsign ==
    /\ Callable
    /\ lookuptype = "clublogapi" => requests < MaxRequests
    /\ \E callsign \in LookupKeys, timestamp \in Times :
       \E response \in
            (IF lookuptype = "clublogapi" THEN ApiResponses
             ELSE {NoResponse}) :
         /\ call' = [op |-> "lookup_callsign", key |-> callsign,
                     timestamp |-> timestamp, response |-> response]
         /\ result' = LookupCallsign(callsign, timestamp, response)
         /\ requests' = IF response.kind = "none" THEN requests
                        ELSE requests + 1
    /\ UNCHANGED <<inputs, stores, indexes, phase, error>>

lookup_prefix_Consuming ==
    /\ Callable
    /\ \E prefix \in LookupKeys, timestamp \in Times :
         /\ call' = [op |-> "lookup_prefix", key |-> prefix,
                     timestamp |-> timestamp]
         /\ result' = LookupPrefix(prefix, timestamp)
         /\ prefixes_index' =
                [k \in DOMAIN prefixes_index \ {StripUpper(prefix)} |->
                    prefixes_index[k]]
    /\ UNCHANGED <<inputs, stores, callsign_exceptions_index,
                   invalid_operations_index, zone_exceptions_index,
                   phase, error, requests>>
lookup_prefix ==
    /\ Callable
    /\ \E prefix \in LookupKeys, timestamp \in Times :
         /\ call' = [op |-> "lookup_prefix", key |-> prefix,
                     timestamp |-> timestamp]
         /\ result' = LookupPrefix(prefix, timestamp)
    /\ UNCHANGED <<inputs, stores, indexes, phase, error, requests>>

is_invalid_operation ==
    /\ Callable
    /\ \E callsign \in LookupKeys, timestamp \in Times :
         /\ call' = [op |-> "is_invalid_operation", key |-> callsign,
                     timestamp |-> timestamp]
         /\ result' = IsInvalidOperation(callsign, timestamp)
    /\ UNCHANGED <<inputs, stores, indexes, phase, error, requests>>

lookup_zone_exception ==
    /\ Callable
    /\ \E callsign \in LookupKeys, timestamp \in Times :
         /\ call' = [op |-> "lookup_zone_exception", key |-> callsign,
                     timestamp |-> timestamp]
         /\ result' = LookupZoneException(callsign, timestamp)
    /\ UNCHANGED <<inputs, stores, indexes, phase, error, requests>>

\* The caller takes the result of the pending call.
ReturnToCaller ==
    /\ call.op # "none"
    /\ call' = NoCall
    /\ result' = NothingYet
    /\ UNCHANGED <<inputs, stores, indexes, phase, error, requests>>

Next ==
    \/ Construct
    \/ lookup_entity
    \/ lookup_callsign
    \/ lookup_prefix
    \/ is_invalid_operation
    \/ lookup_zone_exception
    \/ ReturnToCaller

Spec == Init /\ [][Next]_vars

-----------------------------------------------------------------------------
(* Vocabulary of the properties.  These definitions restate, independently  *)
(* of the operators above, what the properties speak of.                    *)

\* The window of a record contains t: each bound, when present, is strict.
InWindow(rec, t) ==
    /\ "start" \in DOMAIN rec => rec.start < t
    /\ "end" \in DOMAIN rec => t < rec.end

Records(store) == {store[id] : id \in DOMAIN store}

Least(S) == CHOOSE i \in S : \A j \in S : i <= j
Greatest(S) == CHOOSE i \in S : \A j \in S : j <= i

\* s without its surrounding whitespace.
Inner(s) ==
    LET solid == {i \in DOMAIN s : s[i] \notin Whitespace}
    IN  IF solid = {} THEN <<>> ELSE SubSeq(s, Least(solid), Greatest(solid))

SameLetter(x, y) ==
    \/ x = y
    \/ \E k \in DOMAIN LowerLetters :
         {x, y} = {LowerLetters[k], UpperLetters[k]}

\* a and b differ only in letter case or surrounding whitespace.
SameKey(a, b) ==
    /\ Len(Inner(a)) = Len(Inner(b))
    /\ \A i \in DOMAIN Inner(a) : SameLetter(Inner(a)[i], Inner(b)[i])

\* d has no surrounding whitespace and no lower-case letter.
IsNormalised(d) ==
    /\ Inner(d) = d
    /\ \A i \in DOMAIN d : \A k \in DOMAIN LowerLetters : d[i] # LowerLetters[k]

TemporalOps ==
    {"lookup_callsign", "lookup_prefix", "is_invalid_operation",
     "lookup_zone_exception"}

LocalBackend == lookuptype \in {"clublogxml", "countryfile"}

\* The store and the index an operation reads.
StoreFor(op) ==
    CASE op = "lookup_callsign" -> callsign_exceptions
      [] op = "lookup_prefix" -> prefixes
      [] op = "is_invalid_operation" -> invalid_operations
      [] op = "lookup_zone_exception" -> zone_exceptions

IndexFor(op) ==
    CASE op = "lookup_callsign" -> callsign_exceptions_index
      [] op = "lookup_prefix" -> prefixes_index
      [] op = "is_invalid_operation" -> invalid_operations_index
      [] op = "lookup_zone_exception" -> zone_exceptions_index

\* The dispatch table: the operations a backend resolves locally.
Resolves(op) ==
    \/ op \in {"lookup_callsign", "lookup_prefix"} /\ LocalBackend
    \/ op \in {"is_invalid_operation", "lookup_zone_exception"}
       /\ lookuptype = "clublogxml"

\* The id sequence of the index key a lookup key stands for.
SeqFor(op, key) ==
    LET reached == {d \in DOMAIN IndexFor(op) :
                       IsNormalised(d) /\ SameKey(key, d)}
    IN  IF reached = {} THEN <<>>
        ELSE IndexFor(op)[CHOOSE d \in reached : TRUE]

\* The positions of a sequence whose record's window contains t.
Hits(op, seq, t) ==
    {i \in DOMAIN seq : InWindow(StoreFor(op)[seq[i]], t)}

\* What an operation hands back for a record.
Answer(op, rec) ==
    CASE op = "is_invalid_operation" -> TRUE
      [] op = "lookup_zone_exception" -> rec.cqz
      [] OTHER -> rec

\* A temporal lookup resolved locally has just been made.
Resolved == call.op \in TemporalOps /\ Resolves(call.op)

-----------------------------------------------------------------------------
(* C1 *)

\* C1: for every stored record and every timestamp, the test each of the
\* four lookups applies matches the record iff each bound that is present is
\* strictly on its side of the timestamp, so a timestamp equal to a bound
\* never matches and a record with no bound always matches; and a resolved
\* lookup returns a value iff some record of the key's sequence has such a
\* window.
Thm_C1_StrictWindow ==
    /\ \A t \in Times :
         /\ \A rec \in Records(callsign_exceptions) :
              MatchCallsignException(rec, t) <=> InWindow(rec, t)
         /\ \A rec \in Records(prefixes) :
              MatchPrefix(rec, t) <=> InWindow(rec, t)
         /\ \A rec \in Records(invalid_operations) :
              MatchInvalidOperation(rec, t) <=> InWindow(rec, t)
         /\ \A rec \in Records(zone_exceptions) :
              MatchZoneException(rec, t) <=> InWindow(rec, t)
    /\ Resolved =>
         (result.kind = "return"
            <=> Hits(call.op, SeqFor(call.op, call.key), call.timestamp) # {})

\* A callsign lookup at the very instant a bound of each record of the key,
\* all of them with both bounds, and nothing is returned.
Wit_C1_Boundary ==
    /\ call.op = "lookup_callsign"
    /\ lookuptype = "clublogxml"
    /\ LET seq == SeqFor(call.op, call.key) IN
       /\ seq # <<>>
       /\ \A i \in DOMAIN seq :
            LET rec == callsign_exceptions[seq[i]] IN
            /\ {"start", "end"} \subseteq DOMAIN rec
            /\ call.timestamp \in {rec.start, rec.end}
    /\ result = Raise("NoResult")

(* C2 *)

\* C2: a resolved lookup that returns, returns the answer for the first
\* record in index order whose window contains the timestamp, whatever the
\* later records of the sequence are.
Thm_C2_FirstMatch ==
    (Resolved /\ result.kind = "return") =>
        LET seq == SeqFor(call.op, call.key)
            hits == Hits(call.op, seq, call.timestamp)
        IN  /\ hits # {}
            /\ result.value
                 = Answer(call.op, StoreFor(call.op)[seq[Least(hits)]])

\* A zone lookup on a sequence whose first record has no bound and whose
\* later record has both bounds around the timestamp: the first is returned.
Wit_C2_UnboundedFirst ==
    /\ call.op = "lookup_zone_exception"
    /\ lookuptype = "clublogxml"
    /\ LET seq == SeqFor(call.op, call.key) IN
       /\ Len(seq) >= 2
       /\ DOMAIN zone_exceptions[seq[1]] = {"cqz"}
       /\ \E i \in 2..Len(seq) :
            /\ {"start", "end"} \subseteq DOMAIN zone_exceptions[seq[i]]
            /\ InWindow(zone_exceptions[seq[i]], call.timestamp)
            /\ zone_exceptions[seq[i]].cqz # zone_exceptions[seq[1]].cqz
       /\ result = Return(zone_exceptions[seq[1]].cqz)

(* C3 *)

\* C3: on a locally indexed backend a temporal lookup of a key that is not
\* in the index, or of a key none of whose records has a window containing
\* the timestamp, raises NoResult, the same in both cases.
Thm_C3_NoMatch ==
    (call.op \in TemporalOps /\ LocalBackend) =>
        LET seq == SeqFor(call.op, call.key) IN
        (seq = <<>> \/ Hits(call.op, seq, call.timestamp) = {})
            => result = Raise("NoResult")

\* A prefix lookup of a key of the index none of whose records matches.
Wit_C3_KnownKeyNoWindow ==
    /\ call.op = "lookup_prefix"
    /\ LocalBackend
    /\ SeqFor(call.op, call.key) # <<>>
    /\ Hits(call.op, SeqFor(call.op, call.key), call.timestamp) = {}
    /\ result = Raise("NoResult")

(* C4 *)

\* The pairs the dispatch table marks unsupported.
Unsupported(op) ==
    \/ op = "lookup_entity" /\ lookuptype \in {"countryfile", "clublogapi"}
    \/ op = "lookup_prefix" /\ lookuptype = "clublogapi"
    \/ op \in {"is_invalid_operation", "lookup_zone_exception"}
       /\ lookuptype \in {"countryfile", "clublogapi"}

\* C4: an operation the dispatch table marks unsupported for the backend
\* raises NoResult for every id (an int or a string) or key and every
\* timestamp.  A lookup_entity call that passes no id at all is not a call
\* with an id.
Thm_C4_UnsupportedNoResult ==
    (Unsupported(call.op)
       /\ (call.op = "lookup_entity" => call.entity.type # "none"))
        => result = Raise("NoResult")

\* An entity lookup by an id on the prefix-file backend.
Wit_C4_EntityOnCountryfile ==
    /\ call.op = "lookup_entity"
    /\ lookuptype = "countryfile"
    /\ call.entity.type = "int"
    /\ result = Raise("NoResult")

-----------------------------------------------------------------------------
(* Vocabulary of the properties about the builders *)

KeyedSections ==
    {"exceptions", "prefixes", "invalid_operations", "zone_exceptions"}

\* The store and the index built from a section of the XML file.
SectionStore(sec) ==
    CASE sec = "exceptions" -> callsign_exceptions
      [] sec = "prefixes" -> prefixes
      [] sec = "invalid_operations" -> invalid_operations
      [] sec = "zone_exceptions" -> zone_exceptions

SectionIndex(sec) ==
    CASE sec = "exceptions" -> callsign_exceptions_index
      [] sec = "prefixes" -> prefixes_index
      [] sec = "invalid_operations" -> invalid_operations_index
      [] sec = "zone_exceptions" -> zone_exceptions_index

\* The record the XML builder makes of an element of a section.
SectionRecord(sec, e) ==
    CASE sec = "exceptions" -> CallExceptionOf(e)
      [] sec = "prefixes" -> PrefixOf(e)
      [] sec = "invalid_operations" -> InvalidOperationOf(e)
      [] sec = "zone_exceptions" -> ZoneExceptionOf(e)

\* The items of the PLIST that are exact callsigns, and those that are not.
IsExact(item) == item.ExactCallsign
IsPrefix(item) == ~item.ExactCallsign
ExactItems == SelectSeq(cty_plist, IsExact)
PrefixItems == SelectSeq(cty_plist, IsPrefix)

\* No later element of the section has the record attribute of element k.
LastOfRecord(elems, k) ==
    \A j \in DOMAIN elems : j > k => elems[j].record # elems[k].record

\* The GET of a loader failed.
DownloadFailed ==
    error \in {"APIKeyMissingError", "LookupError", "ConnectionError"}

(* C5 *)

\* C5: a full-reference build of a file one of whose five sections has no
\* record fails with an error, and every store and index of the instance is
\* as empty as before the build.
Thm_C5_EmptySectionFails ==
    (lookuptype = "clublogxml" /\ phase # "new"
       /\ \E sec \in Sections : cty_xml[sec] = <<>>)
        => /\ phase = "failed"
           /\ error = "Exception"
           /\ Self = NewFacade

\* A failed build of a file whose last section alone is empty.
Wit_C5_EmptyZoneExceptions ==
    /\ lookuptype = "clublogxml"
    /\ phase = "failed"
    /\ cty_xml.zone_exceptions = <<>>
    /\ \A sec \in Sections \ {"zone_exceptions"} : Len(cty_xml[sec]) >= 2
    /\ Self = NewFacade

(* C6 *)

\* C6: after a build whose entity section has at least one record (the
\* other sections being well filled), every adif id of the input is in the
\* entity store, lookup_entity of such an id returns the stored record and
\* lookup_entity of any other id raises NoResult.
Cex_C6_EntityBuild ==
    (lookuptype = "clublogxml" /\ ~download /\ phase # "new"
       /\ Len(cty_xml.entities) >= 1
       /\ \A sec \in KeyedSections : Len(cty_xml[sec]) >= 2)
        => /\ phase = "ready"
           /\ \A k \in DOMAIN cty_xml.entities :
                cty_xml.entities[k].adif \in DOMAIN entities
           /\ (call.op = "lookup_entity" /\ call.entity.type = "int") =>
                result =
                  IF \E k \in DOMAIN cty_xml.entities :
                        cty_xml.entities[k].adif = call.entity.val
                  THEN Return(entities[call.entity.val])
                  ELSE Raise("NoResult")

(* C7 *)

\* The keys of the input dataset in the category an operation reads.
InputKeys(op) ==
    IF lookuptype = "clublogxml"
    THEN LET elems == CASE op = "lookup_callsign" -> cty_xml.exceptions
                        [] op = "lookup_prefix" -> cty_xml.prefixes
                        [] op = "is_invalid_operation" ->
                               cty_xml.invalid_operations
                        [] op = "lookup_zone_exception" ->
                               cty_xml.zone_exceptions
         IN  {elems[k].call : k \in DOMAIN elems}
    ELSE LET items == IF op = "lookup_callsign" THEN ExactItems
                      ELSE PrefixItems
         IN  {items[k].call : k \in DOMAIN items}

\* What walking an id sequence at t gives.
Outcome(op, seq, t) ==
    IF Hits(op, seq, t) = {} THEN Raise("NoResult")
    ELSE Return(Answer(op, StoreFor(op)[seq[Least(Hits(op, seq, t))]]))

\* C7 as claimed: keys are normalised at build and at lookup, so a lookup
\* string that differs from a dataset key only in letter case or surrounding
\* whitespace walks the sequence built for that dataset key.
Cex_C7_NormalisedAtBuild ==
    Resolved =>
        \A d \in InputKeys(call.op) :
            SameKey(call.key, d) =>
                /\ d \in DOMAIN IndexFor(call.op)
                /\ result = Outcome(call.op, IndexFor(call.op)[d],
                                    call.timestamp)

\* C7 as amended: keys are normalised at lookup only, so the lookup walks
\* the sequence built for every dataset key that is spelled in upper case
\* without surrounding whitespace and differs from the lookup string only in
\* letter case or surrounding whitespace.
Thm_C7_NormalisedAtLookup ==
    Resolved =>
        \A d \in InputKeys(call.op) :
            (IsNormalised(d) /\ SameKey(call.key, d)) =>
                /\ d \in DOMAIN IndexFor(call.op)
                /\ result = Outcome(call.op, IndexFor(call.op)[d],
                                    call.timestamp)

\* A lookup spelled in lower case after a blank has returned the record of
\* the dataset key spelled "A".
Wit_C7_LowerCaseLookup ==
    /\ Resolved
    /\ call.key = <<" ", "a">>
    /\ <<"A">> \in InputKeys(call.op)
    /\ result.kind = "return"

(* C8 *)

\* The PLIST builder numbers the records of each of its two categories from
\* zero in the order it meets them.
PlistIdsSequential ==
    LET table == mapping.table IN
    /\ DOMAIN callsign_exceptions = 0..(Len(ExactItems) - 1)
    /\ \A k \in DOMAIN ExactItems :
         callsign_exceptions[k - 1] = CountryEntryOf(ExactItems[k], table)
    /\ DOMAIN prefixes = 0..(Len(PrefixItems) - 1)
    /\ \A k \in DOMAIN PrefixItems :
         prefixes[k - 1] = CountryEntryOf(PrefixItems[k], table)

\* C8 as claimed: in both builders the k-th input record of a keyed
\* category, counted from zero, is stored under id k, so the ids of a store
\* are exactly 0..n-1.
Cex_C8_SequentialIds ==
    (phase = "ready" /\ LocalBackend) =>
        IF lookuptype = "countryfile" THEN PlistIdsSequential
        ELSE \A sec \in KeyedSections :
               /\ DOMAIN SectionStore(sec) = 0..(Len(cty_xml[sec]) - 1)
               /\ \A k \in DOMAIN cty_xml[sec] :
                    SectionStore(sec)[k - 1]
                      = SectionRecord(sec, cty_xml[sec][k])

\* C8 as amended: the PLIST builder stores the k-th record of a category
\* under id k; the XML builder stores a record under the id its record
\* attribute gives, so the ids of a store are exactly the record attributes
\* of the section (the last record with an attribute is the one stored).
Thm_C8_RecordIds ==
    (phase = "ready" /\ LocalBackend) =>
        IF lookuptype = "countryfile" THEN PlistIdsSequential
        ELSE \A sec \in KeyedSections :
               /\ DOMAIN SectionStore(sec)
                    = {cty_xml[sec][k].record : k \in DOMAIN cty_xml[sec]}
               /\ \A k \in DOMAIN cty_xml[sec] :
                    LastOfRecord(cty_xml[sec], k) =>
                        SectionStore(sec)[cty_xml[sec][k].record]
                          = SectionRecord(sec, cty_xml[sec][k])

\* An XML build whose first exception carries the record attribute 7 and is
\* stored under 7, and whose store has no id 0.
Wit_C8_AttributeIds ==
    /\ phase = "ready"
    /\ lookuptype = "clublogxml"
    /\ cty_xml.exceptions[1].record = 7
    /\ 7 \in DOMAIN callsign_exceptions
    /\ 0 \notin DOMAIN callsign_exceptions
    /\ LastOfRecord(cty_xml.exceptions, 1) =>
         callsign_exceptions[7] = CallExceptionOf(cty_xml.exceptions[1])

(* C9 *)

\* C9: every record a builder makes has the negation of its raw longitude
\* and the raw value of its latitude, zones and adif id.  (An XML record is
\* compared when it is the last one with its id.)
Cex_C9_LongitudeInverted ==
    (phase = "ready" /\ LocalBackend) =>
        IF lookuptype = "countryfile"
        THEN /\ \A k \in DOMAIN ExactItems :
                  LET rec == callsign_exceptions[k - 1]
                      item == ExactItems[k]
                  IN  /\ rec.longitude = 0 - item.Longitude
                      /\ rec.latitude = item.Latitude
                      /\ rec.cqz = item.CQZone
                      /\ rec.ituz = item.ITUZone
             /\ \A k \in DOMAIN PrefixItems :
                  LET rec == prefixes[k - 1]
                      item == PrefixItems[k]
                  IN  /\ rec.longitude = 0 - item.Longitude
                      /\ rec.latitude = item.Latitude
                      /\ rec.cqz = item.CQZone
                      /\ rec.ituz = item.ITUZone
        ELSE /\ \A sec \in {"exceptions", "prefixes"} :
                  \A k \in DOMAIN cty_xml[sec] :
                      LET e == cty_xml[sec][k]
                          rec == SectionStore(sec)[e.record]
                      IN  LastOfRecord(cty_xml[sec], k) =>
                            /\ rec.longitude = 0 - e.long
                            /\ rec.latitude = e.lat
                            /\ rec.cqz = e.cqz
                            /\ rec.adif = e.adif
             /\ \A k \in DOMAIN cty_xml.entities :
                  LET e == cty_xml.entities[k]
                      rec == entities[e.adif]
                  IN  (\A j \in DOMAIN cty_xml.entities :
                          j > k => cty_xml.entities[j].adif # e.adif) =>
                            /\ rec.longitude = 0 - e.long
                            /\ rec.latitude = e.lat
                            /\ rec.cqz = e.cqz

(* C10 *)

\* C10: a PLIST build whose file was fetched succeeds when no mapping table
\* is found and then no record has an adif id; and the records of a build
\* with a table carry the adif id the table gives their country.
Cex_C10_BuildWithoutMapping ==
    (lookuptype = "countryfile" /\ download /\ phase # "new"
       /\ ~DownloadFailed) =>
        LET built == Records(callsign_exceptions) \cup Records(prefixes) IN
        /\ ~mapping.exists =>
             /\ phase = "ready"
             /\ \A rec \in built : "adif" \notin DOMAIN rec
        /\ (mapping.exists /\ mapping.table # EmptyDict) =>
             \A rec \in built :
                 /\ "adif" \in DOMAIN rec
                 /\ rec.adif = mapping.table[rec.country]

-----------------------------------------------------------------------------
(* Vocabulary of the properties about the remote backend *)

\* A lookup_callsign call on the remote backend has just been made.
RemoteCall == call.op = "lookup_callsign" /\ lookuptype = "clublogapi"

\* The call was answered with status 200.
Successful == call.response.kind = "http" /\ call.response.status_code = 200

\* The fields of the answer a record takes, and the names it gives them.
ResponseFields ==
    {<<"Name", "country">>, <<"DXCC", "adif">>, <<"CQZ", "cqz">>,
     <<"Continent", "continent">>, <<"Lat", "latitude">>,
     <<"Lon", "longitude">>}

(* C11 *)

\* C11: a lookup_callsign call on the remote backend that was answered with
\* status 200 and a country code raises NoResult when the code is 0, and
\* otherwise returns a record that has, for each of the six fields the
\* answer carries, that field's value, and nothing else.
Thm_C11_RemoteSentinel ==
    (RemoteCall /\ Successful /\ "DXCC" \in DOMAIN call.response.json) =>
        LET json == call.response.json IN
        IF json.DXCC = 0 THEN result = Raise("NoResult")
        ELSE /\ result.kind = "return"
             /\ DOMAIN result.value
                  = {f[2] : f \in {g \in ResponseFields : g[1] \in DOMAIN json}}
             /\ \A f \in ResponseFields :
                  f[1] \in DOMAIN json => result.value[f[2]] = json[f[1]]

\* The answer carried the country code 0 beside a name and coordinates, and
\* the call raised NoResult.
Wit_C11_SentinelAnswer ==
    /\ RemoteCall
    /\ Successful
    /\ "DXCC" \in DOMAIN call.response.json
    /\ call.response.json.DXCC = 0
    /\ "Name" \in DOMAIN call.response.json
    /\ result = Raise("NoResult")

(* C12 *)

\* C12: every lookup_callsign call on the remote backend adds exactly one to
\* the number of requests issued, whatever the answer; and a call answered
\* with a status other than 200 raises APIKeyMissingError when the body,
\* without its surrounding whitespace, is one of the two API-key messages,
\* and LookupError otherwise.
Thm_C12_OneRequest ==
    [][(lookuptype = "clublogapi" /\ call.op = "none"
          /\ call'.op = "lookup_callsign") =>
            /\ requests' = requests + 1
            /\ (call'.response.kind = "http"
                  /\ call'.response.status_code # 200) =>
                    result' =
                      IF Inner(call'.response.text)
                            \in {<<error1>>, <<error2>>}
                      THEN Raise("APIKeyMissingError")
                      ELSE Raise("LookupError")]_vars

\* The second call of an instance was answered 403 with an API-key message
\* between whitespace: it raised APIKeyMissingError and the instance has
\* issued two requests in all.
Wit_C12_KeyErrorOnSecondCall ==
    /\ RemoteCall
    /\ call.response.kind = "http"
    /\ call.response.status_code = 403
    /\ call.response.text = <<" ", error2, "\n">>
    /\ result = Raise("APIKeyMissingError")
    /\ requests = 2

(* C13 *)

\* The mapping table was found and names the country of every item (or is
\* empty), so the parse of the PLIST file has nothing to fail on.
MappingCovers ==
    /\ mapping.exists
    /\ \/ mapping.table = EmptyDict
       \/ \A k \in DOMAIN cty_plist :
            cty_plist[k].Country \in DOMAIN mapping.table

\* The index of a PLIST category holds, for the call of its k-th item, the
\* id k - 1.
PlistIndexed(index, items) ==
    /\ DOMAIN index = {items[k].call : k \in DOMAIN items}
    /\ \A k \in DOMAIN items : index[items[k].call] = <<k - 1>>

\* C13: an instance constructed for the prefix file from a local file has
\* issued no request, is built, and its prefix and callsign-exception
\* stores and indexes hold the records of that file.
Cex_C13_LocalCountryfile ==
    (lookuptype = "countryfile" /\ ~download /\ phase # "new"
       /\ MappingCovers) =>
        /\ requests = 0
        /\ phase = "ready"
        /\ PlistIdsSequential
        /\ PlistIndexed(callsign_exceptions_index, ExactItems)
        /\ PlistIndexed(prefixes_index, PrefixItems)

(* C14 *)

\* C14: after a construction that failed, every store and every index is as
\* empty as __init__ first made it; after one that succeeded, every category
\* of the backend is of the build: on the full-reference backend the entity
\* store and the store and index of each keyed section are filled, on the
\* prefix-file backend both stores and both indexes hold the items of the
\* file.
Thm_C14_AllOrNothing ==
    /\ phase = "failed" => Self = NewFacade
    /\ (phase = "ready" /\ lookuptype = "clublogxml") =>
         /\ entities # EmptyDict
         /\ \A sec \in KeyedSections :
              /\ SectionStore(sec) # EmptyDict
              /\ SectionIndex(sec) # EmptyDict
    /\ (phase = "ready" /\ lookuptype = "countryfile") =>
         /\ PlistIdsSequential
         /\ PlistIndexed(callsign_exceptions_index, ExactItems)
         /\ PlistIndexed(prefixes_index, PrefixItems)

\* A PLIST build that failed on an item after the first, whose country the
\* mapping table lacks: the first item had been parsed, and no store or
\* index holds it.
Wit_C14_FailedMidway ==
    /\ lookuptype = "countryfile"
    /\ phase = "failed"
    /\ error = "KeyError"
    /\ Len(cty_plist) >= 2
    /\ cty_plist[1].Country \in DOMAIN mapping.table
    /\ Self = NewFacade

(* C15 *)

\* The positions of the input records that carry a key.
KeyPositions(calls, key) == {k \in DOMAIN calls : calls[k] = key}

\* The i-th smallest member of a set of positions.
NthOf(S, i) == CHOOSE k \in S : Cardinality({j \in S : j <= k}) = i

\* The index a build owes to its input: calls[k] is the key and ids[k] the
\* id of the k-th input record; each key has the ids of the records that
\* carry it, one per record, in input order.
ExpectedIndex(calls, ids) ==
    [key \in {calls[k] : k \in DOMAIN calls} |->
        [i \in 1..Cardinality(KeyPositions(calls, key)) |->
            ids[NthOf(KeyPositions(calls, key), i)]]]

CallsOf(elems) == [k \in DOMAIN elems |-> elems[k].call]
RecordsOf(elems) == [k \in DOMAIN elems |-> elems[k].record]
CountedFromZero(items) == [k \in DOMAIN items |-> k - 1]

\* C15: after a build, the index of every keyed category has exactly the
\* keys of the input, and the sequence of each key lists the ids of the
\* input records carrying the key, one entry per record, in the order of
\* the input.
Thm_C15_IndexOrder ==
    (phase = "ready" /\ LocalBackend) =>
        IF lookuptype = "clublogxml"
        THEN \A sec \in KeyedSections :
               SectionIndex(sec)
                 = ExpectedIndex(CallsOf(cty_xml[sec]),
                                 RecordsOf(cty_xml[sec]))
        ELSE /\ callsign_exceptions_index
                  = ExpectedIndex(CallsOf(ExactItems),
                                  CountedFromZero(ExactItems))
             /\ prefixes_index
                  = ExpectedIndex(CallsOf(PrefixItems),
                                  CountedFromZero(PrefixItems))

\* A build of three records keyed A, B, A: the sequence of A holds the ids
\* of the first and the third record, in that order.
Wit_C15_LaterRecordAppended ==
    /\ phase = "ready"
    /\ lookuptype = "clublogxml"
    /\ CallsOf(cty_xml.prefixes) = <<<<"A">>, <<"B">>, <<"A">>>>
    /\ prefixes_index[<<"A">>] = <<0, 2>>
    /\ prefixes_index[<<"B">>] = <<1>>

(* C16 *)

\* The ids the sequences of an index hold.
IndexedIds(index) ==
    UNION {{index[key][i] : i \in DOMAIN index[key]} : key \in DOMAIN index}

\* C16: after a successful build, every id held by a sequence of the index
\* of a keyed category is an id of the category's store, and a lookup that
\* walks a sequence finds every id it reads.
Thm_C16_IndexedIdsStored ==
    (phase = "ready" /\ LocalBackend) =>
        /\ \A sec \in KeyedSections :
             IndexedIds(SectionIndex(sec)) \subseteq DOMAIN SectionStore(sec)
        /\ call.op \in TemporalOps => result # Raise("KeyError")

\* A prefix lookup has walked a sequence that holds the id 7, the record
\* attribute of an input record that is not its position, and returned the
\* record stored under 7.
Wit_C16_WalkedAttributeId ==
    /\ phase = "ready"
    /\ lookuptype = "clublogxml"
    /\ call.op = "lookup_prefix"
    /\ SeqFor(call.op, call.key) # <<>>
    /\ SeqFor(call.op, call.key)[1] = 7
    /\ result = Return(prefixes[7])

(* C17 *)

\* What the operation of a call gives on the instance as it stands.
Rerun ==
    CASE call.op = "lookup_entity" -> LookupEntity(call.entity)
      [] call.op = "lookup_callsign" ->
             LookupCallsign(call.key, call.timestamp, call.response)
      [] call.op = "lookup_prefix" -> LookupPrefix(call.key, call.timestamp)
      [] call.op = "is_invalid_operation" ->
             IsInvalidOperation(call.key, call.timestamp)
      [] call.op = "lookup_zone_exception" ->
             LookupZoneException(call.key, call.timestamp)

\* C17: every step that makes a call of one of the five lookups, whether it
\* returns or raises, leaves the five stores and the four indexes as they
\* were, and the result it gave is the one the same call (with the same
\* answer of the remote service, where there is one) gives on the instance
\* it left behind; so a lookup made after any others gives what it gives
\* alone.
Thm_C17_LookupsReadOnly ==
    [][(call.op = "none" /\ call'.op # "none") =>
            /\ UNCHANGED <<stores, indexes>>
            /\ result' = Rerun']_vars

\* A lookup that raised on a built instance whose stores and indexes are
\* still the filled ones of the build.
Wit_C17_FailedLookupKeepsStores ==
    /\ lookuptype = "clublogxml"
    /\ call.op = "lookup_zone_exception"
    /\ result = Raise("NoResult")
    /\ entities # EmptyDict
    /\ \A sec \in KeyedSections :
         /\ SectionStore(sec) # EmptyDict
         /\ SectionIndex(sec)
              = ExpectedIndex(CallsOf(cty_xml[sec]), RecordsOf(cty_xml[sec]))

(* C18 *)

\* C18: a call of is_invalid_operation never returns False: it returns True
\* when the backend is the full-reference one and some record of the
\* sequence the callsign reaches has a window that contains the timestamp,
\* and it raises NoResult in every other case.
Thm_C18_TrueOrNoResult ==
    call.op = "is_invalid_operation" =>
        /\ result # Return(FALSE)
        /\ result =
             IF lookuptype = "clublogxml"
                /\ Hits(call.op, SeqFor(call.op, call.key),
                        call.timestamp) # {}
             THEN Return(TRUE)
             ELSE Raise("NoResult")

\* The first record of the callsign's sequence does not contain the
\* timestamp, a later one does, and the call returned True.
Wit_C18_LaterRecordInvalid ==
    /\ call.op = "is_invalid_operation"
    /\ lookuptype = "clublogxml"
    /\ 1 \notin Hits(call.op, SeqFor(call.op, call.key), call.timestamp)
    /\ Hits(call.op, SeqFor(call.op, call.key), call.timestamp) # {}
    /\ result = Return(TRUE)

====
